---- MODULE Spec2Model ----
(***************************************************************************)
(* Artillery processor hooks with AWS SigV4 signing: the template          *)
(* resolver, the beforeRequest signing hooks and the afterResponse         *)
(* logging hooks, modelled as state machines.                              *)
(*                                                                         *)
(* A JavaScript string is a sequence of one-character strings; a few       *)
(* multi-character words ("constructor", "http://h", ...) are kept as      *)
(* single atoms of such a sequence where only their identity matters.      *)
(* A JavaScript value is a record [t |-> type tag, s |-> text]: for a      *)
(* string s is its content, for the other types s is what String(v)        *)
(* yields.                                                                 *)
(***************************************************************************)
EXTENDS Integers, Sequences, FiniteSets, TLC

VARIABLES
    rin,      \* resolver run: the first argument of resolveTemplate
    rvars,    \* resolver run: the variable context
    rout,     \* resolver run: the value returned
    rdone,    \* resolver run: whether resolveTemplate has been applied
    impl,           \* the processor file the harness has loaded
    env,            \* process.env: APP_AWS_KEY, APP_AWS_SECRET, APP_AWS_SESSION
    flags,          \* DEBUG_LOG_BODY_ENABLED, RESPONSE_LOG_BODY_ENABLED
    step,           \* the request as the scenario states it
    context,        \* the virtual user's context: context.vars
    requestParams,  \* the request descriptor the hooks work on
    logs,           \* lines held by each log file
    calls,          \* hook invocations so far
    call,           \* the last hook invocation: what it was given and did
    prev,           \* the hook invocation before it
    csv             \* a loadCsvData run: the path, the file, what was returned

rvarsTuple == <<rin, rvars, rout, rdone>>

hvarsTuple ==
    <<impl, env, flags, step, context, requestParams, logs, calls, call, prev>>

vars == <<rin, rvars, rout, rdone, impl, env, flags, step, context,
          requestParams, logs, calls, call, prev, csv>>

-----------------------------------------------------------------------------
(* JavaScript values *)

Str(s) == [t |-> "str", s |-> s]
Undefined == [t |-> "undef", s |-> <<"undefined">>]
Null == [t |-> "null", s |-> <<"n", "u", "l", "l">>]
Num0 == [t |-> "num", s |-> <<"0">>]
Num42 == [t |-> "num", s |-> <<"4", "2">>]
False == [t |-> "bool", s |-> <<"f", "a", "l", "s", "e">>]
SomeObject == [t |-> "obj", s |-> <<"[object Object]">>]

\* String(v)
StringOf(v) == v.s

\* !v
Falsy(v) ==
    \/ v.t \in {"undef", "null"}
    \/ v.t = "str" /\ v.s = <<>>
    \/ v = Num0
    \/ v = False

-----------------------------------------------------------------------------
(* Strings *)

IsWs(c) == c \in {" "}

RECURSIVE TrimStart(_)
TrimStart(s) ==
    IF s # <<>> /\ IsWs(Head(s)) THEN TrimStart(Tail(s)) ELSE s

RECURSIVE TrimEnd(_)
TrimEnd(s) ==
    IF s # <<>> /\ IsWs(s[Len(s)]) THEN TrimEnd(SubSeq(s, 1, Len(s) - 1)) ELSE s

\* String.prototype.trim
Trim(s) == TrimEnd(TrimStart(s))

\* The least index >= i of s holding c, or 0.
RECURSIVE IndexFrom(_, _, _)
IndexFrom(s, c, i) ==
    IF i > Len(s) THEN 0
    ELSE IF s[i] = c THEN i
    ELSE IndexFrom(s, c, i + 1)

-----------------------------------------------------------------------------
(* The variable context: a plain object.  Its own properties are the       *)
(* function vars; a read of a name it does not own goes on to              *)
(* Object.prototype.                                                       *)

ObjectPrototype ==
    [k \in {<<"constructor">>} |->
        [t |-> "fn", s |-> <<"function Object() { [native code] }">>]]

\* vars[k]
GetProperty(ctxVars, k) ==
    IF k \in DOMAIN ctxVars THEN ctxVars[k]
    ELSE IF k \in DOMAIN ObjectPrototype THEN ObjectPrototype[k]
    ELSE Undefined

-----------------------------------------------------------------------------
(* resolveTemplate: str.replace(/{{\s*([^}]+)\s*}}/g, ...)                    *)

\* The end of the match of /{{\s*([^}]+)\s*}}/ starting at i, or 0: "{{", a
\* non-empty run of characters other than "}", and "}}".
MatchEnd(s, i) ==
    IF i + 1 <= Len(s) /\ s[i] = "{" /\ s[i + 1] = "{"
    THEN LET e == IndexFrom(s, "}", i + 2)
         IN  IF e > i + 2 /\ e + 1 <= Len(s) /\ s[e + 1] = "}" THEN e + 1 ELSE 0
    ELSE 0

\* The capture group of a match whose run (the text between the braces) is
\* given: the greedy \s* takes the leading whitespace, but leaves one
\* character to [^}]+ when the run is all whitespace; [^}]+ takes the rest.
Capture(run) ==
    IF TrimStart(run) = <<>> THEN <<run[Len(run)]>> ELSE TrimStart(run)

\* Replacer with a truthiness test in place of !== undefined.
ReplacerTruthy(key, ctxVars) ==
    IF ~Falsy(GetProperty(ctxVars, Trim(key)))
    THEN StringOf(GetProperty(ctxVars, Trim(key)))
    ELSE <<>>

\* The replacer callback: (_, key) => vars[key.trim()] !== undefined ? ... : ""
Replacer(key, ctxVars) ==
    IF GetProperty(ctxVars, Trim(key)) # Undefined
    THEN StringOf(GetProperty(ctxVars, Trim(key)))
    ELSE <<>>

RECURSIVE ReplaceAll(_, _, _)
ReplaceAll(s, i, ctxVars) ==
    IF i > Len(s) THEN <<>>
    ELSE LET e == MatchEnd(s, i)
         IN  IF e # 0
             THEN Replacer(Capture(SubSeq(s, i + 2, e - 2)), ctxVars)
                      \o ReplaceAll(s, e + 1, ctxVars)
             ELSE <<s[i]>> \o ReplaceAll(s, i + 1, ctxVars)

\* resolveTemplate without the typeof test: a truthy non-string is coerced.
resolveTemplateCoercing(str, ctxVars) ==
    IF Falsy(str) THEN str
    ELSE Str(ReplaceAll(StringOf(str), 1, ctxVars))

resolveTemplate(str, ctxVars) ==
    IF Falsy(str) \/ str.t # "str" THEN str
    ELSE Str(ReplaceAll(str.s, 1, ctxVars))

-----------------------------------------------------------------------------
(* url.parse (Node's legacy parser), for the URLs of Urls: an optional     *)
(* "http://h" origin, a path, a query, a fragment.                         *)

HasWs(s) == \E k \in 1..Len(s) : IsWs(s[k])

\* The characters the legacy parser percent-escapes, among those modelled.
RECURSIVE AutoEscape(_)
AutoEscape(s) ==
    IF s = <<>> THEN <<>>
    ELSE (CASE Head(s) = "{" -> <<"%7B">>
            [] Head(s) = "}" -> <<"%7D">>
            [] Head(s) = " " -> <<"%20">>
            [] OTHER -> <<Head(s)>>) \o AutoEscape(Tail(s))

\* s up to (not including) index i; the whole of s when i = 0.
UpTo(s, i) == IF i = 0 THEN s ELSE SubSeq(s, 1, i - 1)

\* s from index i on as a string; null when i = 0.
FromOrNull(s, i) == IF i = 0 THEN Null ELSE Str(SubSeq(s, i, Len(s)))

\* A path the parser takes as it stands: it starts with "/" and holds no
\* whitespace and no fragment.
IsSimplePath(rest) ==
    /\ rest # <<>> /\ rest[1] = "/"
    /\ ~HasWs(rest) /\ IndexFrom(rest, "#", 1) = 0

HasHost(rest) == rest # <<>> /\ rest[1] = "http://h"

\* The parsed URL of a host flag, a pathname text and a search value.
ParsedUrl(hasHost, p, search) ==
    [threw |-> FALSE,
     pathname |-> IF p # <<>> THEN Str(p)
                  ELSE IF hasHost THEN Str(<<"/">>) ELSE Null,
     search |-> search,
     path |-> IF p = <<>> /\ ~hasHost /\ search = Null THEN Null
              ELSE Str((IF p # <<>> THEN p ELSE IF hasHost THEN <<"/">> ELSE <<>>)
                       \o (IF search = Null THEN <<>> ELSE search.s))]

\* Path and query: s is split at its first "?".
SplitQuery(hasHost, s) ==
    ParsedUrl(hasHost, UpTo(s, IndexFrom(s, "?", 1)),
              FromOrNull(s, IndexFrom(s, "?", 1)))

\* The fragment is dropped: s is cut at its first "#".
DropHash(hasHost, s) == SplitQuery(hasHost, UpTo(s, IndexFrom(s, "#", 1)))

\* The trimmed URL: a simple path is split as it stands; any other URL
\* loses its origin and has its unsafe characters escaped first.
ParseRest(rest) ==
    IF IsSimplePath(rest) THEN SplitQuery(FALSE, rest)
    ELSE DropHash(HasHost(rest),
                  AutoEscape(IF HasHost(rest) THEN Tail(rest) ELSE rest))

\* url.parse(u): [threw, pathname, search, path].  A non-string argument is
\* a TypeError.
UrlParse(u) ==
    IF u.t # "str"
    THEN [threw |-> TRUE, pathname |-> Null, search |-> Null, path |-> Null]
    ELSE ParseRest(Trim(u.s))

\* parsedUrl.pathname + (parsedUrl.search || ''): a null pathname is
\* concatenated as the text "null".
PathnamePlusSearch(parsed) ==
    StringOf(parsed.pathname)
        \o (IF Falsy(parsed.search) THEN <<>> ELSE parsed.search.s)

-----------------------------------------------------------------------------
(* JSON.stringify, for the payloads of Payloads: an object {k: <string>}   *)
(* and an object that refers to itself.                                    *)

Json(s) == [t |-> "json", s |-> s]
Circular == [t |-> "circular", s |-> <<"[object Object]">>]

RECURSIVE JsonEscape(_)
JsonEscape(s) ==
    IF s = <<>> THEN <<>>
    ELSE (IF Head(s) \in {"\"", "\\"} THEN <<"\\", Head(s)>> ELSE <<Head(s)>>)
             \o JsonEscape(Tail(s))

JsonQuote(s) == <<"\"">> \o JsonEscape(s) \o <<"\"">>

\* JSON.stringify(v): [threw, text].  A circular structure is a TypeError.
JsonStringify(v) ==
    CASE v.t = "circular" -> [threw |-> TRUE, text |-> <<>>]
      [] v.t = "json" ->
            [threw |-> FALSE,
             text |-> <<"{">> \o JsonQuote(<<"k">>) \o <<":">>
                          \o JsonQuote(v.s) \o <<"}">>]
      [] v.t = "str" -> [threw |-> FALSE, text |-> JsonQuote(v.s)]
      [] OTHER -> [threw |-> FALSE, text |-> v.s]

-----------------------------------------------------------------------------
(* Module constants and the log files.  REGION and TARGET_HOST are read    *)
(* once from the environment when the module loads (custom-signer.js has   *)
(* them as literals); they are fixed for the whole run.                    *)

SERVICE_NAME == "execute-api"
REGION == "us-east-2"
TARGET_HOST == Str(<<"h">>)

RESPONSE_LOG == "responses.log"
ERROR_LOG == "errors.log"
DEBUG_LOG == "debug.log"
LogFiles == {RESPONSE_LOG, ERROR_LOG, DEBUG_LOG}

\* str.substring(0, n)
Substring(s, n) == SubSeq(s, 1, IF Len(s) < n THEN Len(s) ELSE n)

\* logToFile(file, message) at time now: the line it appends to file.
logToFile(file, message, now) == [file |-> file, ts |-> now, msg |-> message]

\* The log files after the lines of appended have been appended.
RECURSIVE AppendAll(_, _)
AppendAll(lg, appended) ==
    IF appended = <<>> THEN lg
    ELSE AppendAll([lg EXCEPT ![Head(appended).file] = @ + 1], Tail(appended))

-----------------------------------------------------------------------------
(* aws4.sign(opts, creds): the library call, with the signature kept as    *)
(* the term it is computed from.                                           *)

Has(h, name) == name \in DOMAIN h /\ ~Falsy(h[name])

\* Headers h with name set to v.
SetHeader(h, name, v) == (name :> v) @@ h

\* Headers h with name set to v when cond holds and h has no such header.
DefaultHeader(h, cond, name, v) ==
    IF cond /\ ~Has(h, name) THEN SetHeader(h, name, v) ELSE h

\* The headers that enter the canonical request.
Canonical(h) == [n \in DOMAIN h \ {"Authorization"} |-> h[n]]

\* PrepareRequest with a header that counts the requests signed so far.
PrepareRequestCounting(opts, creds, now) ==
    SetHeader(
      DefaultHeader(
        DefaultHeader(opts.headers, TRUE, "Host", opts.host),
        TRUE, "X-Amz-Date", [t |-> "date", s |-> <<>>, n |-> now]),
      "X-Request-Count", [t |-> "num", s |-> <<>>, n |-> calls])

\* What the signer does with the headers before it computes anything: Host,
\* Content-Type and Content-Length for a body, the session token, and the
\* date (kept when the headers already carry one).
PrepareRequest(opts, creds, now) ==
    DefaultHeader(
      DefaultHeader(
        DefaultHeader(
          DefaultHeader(
            DefaultHeader(opts.headers, TRUE, "Host", opts.host),
            ~Falsy(opts.body), "Content-Type", Str(<<"form">>)),
          ~Falsy(opts.body), "Content-Length",
          [t |-> "num", s |-> <<>>, n |-> Len(opts.body.s)]),
        ~Falsy(creds.sessionToken), "X-Amz-Security-Token", creds.sessionToken),
      TRUE, "X-Amz-Date", [t |-> "date", s |-> <<>>, n |-> now])

\* The Authorization header: the credential scope and the signature, a keyed
\* hash of the canonical request under a key derived from the secret.
AuthHeader(opts, creds, h) ==
    [t |-> "auth", s |-> <<>>,
     credential |-> <<creds.accessKeyId, h["X-Amz-Date"], opts.region, opts.service>>,
     signedHeaders |-> DOMAIN Canonical(h),
     signature |->
        [key |-> <<creds.secretAccessKey, h["X-Amz-Date"], opts.region, opts.service>>,
         method |-> IF Falsy(opts.method)
                    THEN (IF Falsy(opts.body) THEN "GET" ELSE "POST")
                    ELSE opts.method.s,
         path |-> opts.path,
         headers |-> Canonical(h),
         payload |-> IF Falsy(opts.body) THEN <<>> ELSE opts.body.s]]

\* The prepared headers h are signed: a header whose value is null makes the
\* canonical headers throw.
Authorize(opts, creds, h) ==
    IF \E n \in DOMAIN Canonical(h) : h[n].t \in {"null", "undef"}
    THEN [threw |-> TRUE, headers |-> h]
    ELSE [threw |-> FALSE,
          headers |-> SetHeader(h, "Authorization", AuthHeader(opts, creds, h))]

\* aws4.sign: [threw, headers].  The headers object is changed in place, so
\* headers is what it holds when the call ends, thrown or not.
aws4Sign(opts, creds, now) ==
    Authorize(opts, creds, PrepareRequest(opts, creds, now))

-----------------------------------------------------------------------------
(* The beforeRequest hooks.  Each yields what one invocation does:         *)
(*   requestParams  the descriptor when the hook ends                      *)
(*   opts           what the signer was given (signerCalls = 0: nothing)   *)
(*   failedAt       the step that threw: "none", "url", "json", "sign"     *)
(*   appended       the lines appended to the log files, in order          *)
(*   nextCalls      the calls of the continuation: "ok" is next(),         *)
(*                  "err" is next(err)                                     *)
(*   threw          whether an exception left the hook                     *)
(* now is the time the invocation reads; nextThrows says that the          *)
(* harness's continuation throws when it is called.                        *)

NoOpts ==
    [host |-> Undefined, method |-> Undefined, path |-> Undefined,
     service |-> SERVICE_NAME, region |-> REGION, body |-> Undefined,
     headers |-> <<>>]

\* The credentials aws4 finds by itself (AWS_ACCESS_KEY_ID, ...).
DefaultCredentials ==
    [accessKeyId |-> Str(<<"AKID">>), secretAccessKey |-> Str(<<"SECRET">>),
     sessionToken |-> Undefined]

\* TryCatchNext with a catch block that goes on with next().
TryCatchNextSwallow(failed, nextThrows) ==
    [nextCalls |-> <<"ok">>, caught |-> failed, threw |-> nextThrows]

\* try { ...; return next(); } catch (err) { ...; return next(err); }
\* failed: a step before next() threw.  A continuation that throws inside
\* the try block is caught like any other exception.
TryCatchNext(failed, nextThrows) ==
    IF failed THEN [nextCalls |-> <<"err">>, caught |-> TRUE, threw |-> nextThrows]
    ELSE IF nextThrows
         THEN [nextCalls |-> <<"ok", "err">>, caught |-> TRUE, threw |-> TRUE]
         ELSE [nextCalls |-> <<"ok">>, caught |-> FALSE, threw |-> FALSE]

\* What an invocation did, given how its try block ended (fin) and the
\* lines its catch block appends (onCatch).
Outcome(rp, opts, signerCalls, failedAt, appended, onCatch, fin) ==
    [requestParams |-> rp,
     opts |-> opts,
     signerCalls |-> signerCalls,
     failedAt |-> failedAt,
     appended |-> appended \o (IF fin.caught THEN onCatch ELSE <<>>),
     nextCalls |-> fin.nextCalls,
     threw |-> fin.threw]

\* signRequest, step 4: the credentials read from the environment.
Credentials(e) ==
    [accessKeyId |-> e.APP_AWS_KEY,
     secretAccessKey |-> e.APP_AWS_SECRET,
     sessionToken |-> IF Falsy(e.APP_AWS_SESSION) THEN Undefined
                      ELSE e.APP_AWS_SESSION]

\* signRequest, step 5: the signed headers and the final URL are applied,
\* unless the signer threw.
ApplySigned(rp, canonicalPath, appended, opts, signed, nextThrows) ==
    Outcome(IF signed.threw THEN rp
            ELSE [rp EXCEPT !.url = Str(canonicalPath),
                            !.headers = signed.headers],
            opts, 1, IF signed.threw THEN "sign" ELSE "none",
            appended, <<>>, TryCatchNext(signed.threw, nextThrows))

\* signRequest, step 4: the signer is called with the options.
SignOpts(rp, e, now, nextThrows, canonicalPath, appended, opts) ==
    ApplySigned(rp, canonicalPath, appended, opts,
                aws4Sign(opts, Credentials(e), now), nextThrows)

\* signRequest, the debug log and step 3: a body is logged, and the signing
\* options are built with body as the body to sign.
SignBody(rp, e, now, nextThrows, canonicalPath, body) ==
    SignOpts(rp, e, now, nextThrows, canonicalPath,
             IF ~Falsy(body)
             THEN <<logToFile(DEBUG_LOG,
                       <<"POST Body Signed Content: ">> \o Substring(body.s, 100),
                       now)>>
             ELSE <<>>,
             [host |-> TARGET_HOST, method |-> rp.method,
              path |-> Str(canonicalPath), service |-> SERVICE_NAME,
              region |-> REGION, body |-> body,
              headers |-> SetHeader(rp.headers, "Host", TARGET_HOST)])

\* signRequest, step 2 with a json payload: the resolved text becomes the
\* descriptor's body and json is deleted.
SignResolved(rp, e, now, nextThrows, canonicalPath, body) ==
    SignBody([rp EXCEPT !.body = body, !.json = Undefined],
             e, now, nextThrows, canonicalPath, body)

\* signRequest, step 2: a json payload is serialized and resolved; without
\* one, body stays undefined.
SignPath(rp, ctx, e, now, nextThrows, canonicalPath) ==
    IF Falsy(rp.json)
    THEN SignBody(rp, e, now, nextThrows, canonicalPath, Undefined)
    ELSE IF JsonStringify(rp.json).threw
    THEN Outcome(rp, NoOpts, 0, "json", <<>>, <<>>, TryCatchNext(TRUE, nextThrows))
    ELSE SignResolved(rp, e, now, nextThrows, canonicalPath,
                      resolveTemplate(Str(JsonStringify(rp.json).text), ctx.vars))

\* signRequest, step 1: the resolved URL is parsed.
SignParsed(rp, ctx, e, now, nextThrows, parsedUrl) ==
    IF parsedUrl.threw
    THEN Outcome(rp, NoOpts, 0, "url", <<>>, <<>>, TryCatchNext(TRUE, nextThrows))
    ELSE SignPath(rp, ctx, e, now, nextThrows, PathnamePlusSearch(parsedUrl))

\* signRequest of the processor with template resolution.
signRequest(rp, ctx, e, now, nextThrows) ==
    SignParsed(rp, ctx, e, now, nextThrows,
               UrlParse(resolveTemplate(rp.url, ctx.vars)))

\* The older hooks, after signing: the signed headers are applied and the
\* body is set back; the signer has changed the descriptor's own headers
\* object even when it threw.
LegacyApply(rp, body, options, signed, onSigned, onCatch, nextThrows) ==
    Outcome(IF signed.threw THEN [rp EXCEPT !.headers = signed.headers]
            ELSE IF Falsy(body) THEN [rp EXCEPT !.headers = signed.headers]
            ELSE [rp EXCEPT !.headers = signed.headers, !.body = body],
            options, 1, IF signed.threw THEN "sign" ELSE "none",
            IF signed.threw THEN <<>> ELSE onSigned, onCatch,
            TryCatchNext(signed.threw, nextThrows))

\* The older hooks, the signing options: the descriptor's own headers, the
\* credentials left to the signer.
LegacyOptions(rp, path, body) ==
    [host |-> TARGET_HOST,
     method |-> IF Falsy(rp.method) THEN Str(<<"GET">>) ELSE rp.method,
     path |-> path, service |-> SERVICE_NAME, region |-> REGION,
     body |-> body, headers |-> rp.headers]

\* "Signed <method> <path> ..." (the utilities processor's debug line).
SignedLine(options, now) ==
    <<logToFile(DEBUG_LOG,
          <<"Signed ">> \o options.method.s \o <<" ">> \o StringOf(options.path),
          now)>>

\* The older hooks: the URL is parsed and the json payload serialized, with
\* no template resolution.  logging: whether the hook writes its debug line.
LegacySign(rp, now, nextThrows, logging, onCatch) ==
    IF UrlParse(rp.url).threw
    THEN Outcome(rp, NoOpts, 0, "url", <<>>, onCatch, TryCatchNext(TRUE, nextThrows))
    ELSE IF ~Falsy(rp.json) /\ JsonStringify(rp.json).threw
    THEN Outcome(rp, NoOpts, 0, "json", <<>>, onCatch, TryCatchNext(TRUE, nextThrows))
    ELSE LegacyApply(rp,
             IF Falsy(rp.json) THEN Undefined
             ELSE Str(JsonStringify(rp.json).text),
             LegacyOptions(rp, UrlParse(rp.url).path,
                 IF Falsy(rp.json) THEN Undefined
                 ELSE Str(JsonStringify(rp.json).text)),
             aws4Sign(LegacyOptions(rp, UrlParse(rp.url).path,
                          IF Falsy(rp.json) THEN Undefined
                          ELSE Str(JsonStringify(rp.json).text)),
                      DefaultCredentials, now),
             IF logging
             THEN SignedLine(LegacyOptions(rp, UrlParse(rp.url).path, Undefined), now)
             ELSE <<>>,
             onCatch, nextThrows)

\* signRequest of utilities/custom-artillery-utils.js: it logs the signing
\* to the debug log and, in its catch block, the failure to the error log.
signRequestUtils(rp, ctx, e, now, nextThrows) ==
    LegacySign(rp, now, nextThrows, TRUE,
               <<logToFile(ERROR_LOG, <<"SigV4 Signing Failed: ">>, now)>>)

\* signRequest of custom-signer.js: no logging.
signRequestCustom(rp, ctx, e, now, nextThrows) ==
    LegacySign(rp, now, nextThrows, FALSE, <<>>)

-----------------------------------------------------------------------------
(* The afterResponse hooks.  A response is [present, statusCode, body];    *)
(* present = FALSE is the hook called with no response.                    *)

Buffer(s) == [t |-> "buffer", s |-> s]

NoResponse == [present |-> FALSE, statusCode |-> 0, body |-> Undefined]

Response(statusCode, body) ==
    [present |-> TRUE, statusCode |-> statusCode, body |-> body]

\* JSON.stringify(v, null, 2) of a plain object or a string.
JsonPretty(v) ==
    IF v.t = "str" THEN JsonQuote(v.s) ELSE <<"{", "\n", "}">>

\* A body as text: a buffer decoded, a string as it is, anything else
\* serialized.
BodyText(body) ==
    IF body.t \in {"buffer", "str"} THEN body.s ELSE JsonPretty(body)

\* text.substring(0, 500) followed by "..." when text is longer.
Snippet(text) ==
    Substring(text, 500) \o (IF Len(text) > 500 THEN <<"...">> ELSE <<>>)

\* `${requestParams.method} ${requestParams.url}`
RequestUrl(rp) == StringOf(rp.method) \o <<" ">> \o StringOf(rp.url)

ResponseBodyText(response) ==
    IF response.present /\ ~Falsy(response.body)
    THEN BodyText(response.body) ELSE <<"<no response body>">>

RequestBodyText(rp) ==
    IF ~Falsy(rp.body) THEN BodyText(rp.body) ELSE <<"<no request body>">>

\* The message logged when no response was received.
NoResponseMessage(rp, fl) ==
    <<"No response received for ">> \o RequestUrl(rp) \o <<".">>
        \o (IF fl.DEBUG_LOG_BODY_ENABLED
            THEN <<" Request Body: ">> \o Snippet(RequestBodyText(rp))
            ELSE <<>>)

\* The base log message of a response.
LogMessage(rp, response) ==
    <<ToString(response.statusCode), " ">> \o RequestUrl(rp)
        \o <<" | Response Snippet: ">> \o Snippet(ResponseBodyText(response))

\* ResponseLines with one log file for every status code.
ResponseLinesOneFile(rp, response, now, fl) ==
    IF fl.RESPONSE_LOG_BODY_ENABLED
    THEN <<logToFile(RESPONSE_LOG, LogMessage(rp, response), now)>>
    ELSE <<>>

\* The lines afterResponse appends for a response, by status code.
ResponseLines(rp, response, now, fl) ==
    IF response.statusCode >= 400
    THEN IF fl.RESPONSE_LOG_BODY_ENABLED
         THEN <<logToFile(ERROR_LOG,
                   LogMessage(rp, response)
                       \o (IF fl.DEBUG_LOG_BODY_ENABLED
                           THEN <<"\nREQUEST BODY: ">> \o Snippet(RequestBodyText(rp))
                           ELSE <<>>),
                   now)>>
         ELSE <<>>
    ELSE IF response.statusCode >= 200 /\ response.statusCode < 400
            /\ fl.RESPONSE_LOG_BODY_ENABLED
    THEN <<logToFile(RESPONSE_LOG, LogMessage(rp, response), now)>>
    ELSE IF fl.RESPONSE_LOG_BODY_ENABLED
         THEN <<logToFile(DEBUG_LOG,
                   <<"[Other Status] ">> \o LogMessage(rp, response), now)>>
         ELSE <<>>

\* afterResponse that hands an error status to next.
afterResponseRaising(rp, response, now, fl) ==
    [appended |-> <<>>,
     nextCalls |-> IF response.present /\ response.statusCode >= 400
                   THEN <<"err">> ELSE <<"ok">>,
     threw |-> FALSE]

\* afterResponse of the processor with file logging: [appended, nextCalls,
\* threw].
afterResponse(rp, response, now, fl) ==
    [appended |-> IF ~response.present
                  THEN <<logToFile(ERROR_LOG, NoResponseMessage(rp, fl), now)>>
                  ELSE ResponseLines(rp, response, now, fl),
     nextCalls |-> <<"ok">>,
     threw |-> FALSE]

\* afterResponse of utilities/custom-artillery-utils.js: it prints to the
\* console only.
afterResponseUtils(rp, response, now, fl) ==
    [appended |-> <<>>, nextCalls |-> <<"ok">>, threw |-> FALSE]

-----------------------------------------------------------------------------
(* loadCsvData.  A file is the text it holds, or Missing; the text is made *)
(* of field characters, "," and "\n" (no quotes, no carriage returns).     *)

Missing == [t |-> "missing", s |-> <<>>]

File(text) == [t |-> "file", s |-> text]

\* s.split(c): the pieces of s between the occurrences of c.
RECURSIVE SplitOn(_, _)
SplitOn(s, c) ==
    IF IndexFrom(s, c, 1) = 0 THEN <<s>>
    ELSE <<SubSeq(s, 1, IndexFrom(s, c, 1) - 1)>>
             \o SplitOn(SubSeq(s, IndexFrom(s, c, 1) + 1, Len(s)), c)

NotEmpty(line) == line # <<>>

\* skip_empty_lines: the lines of the text that hold something.
CsvLines(text) == SelectSeq(SplitOn(text, "\n"), NotEmpty)

\* The fields of the k-th line that holds something.
CsvRow(text, k) == SplitOn(CsvLines(text)[k], ",")

\* The last column of the header that carries the name n.
LastColumn(header, n) ==
    CHOOSE j \in 1..Len(header) :
        /\ header[j] = n
        /\ \A i \in (j + 1)..Len(header) : header[i] # n

\* columns: true: a row becomes an object keyed by the header's names; of
\* two columns with one name the later one stays.
CsvRecord(header, row) ==
    [n \in {header[j] : j \in 1..Len(header)} |-> row[LastColumn(header, n)]]

\* parse(csvContent, {columns: true, skip_empty_lines: true}): [threw,
\* records].  A row whose number of fields differs from the header's is an
\* error.
csvParse(text) ==
    IF \E k \in 2..Len(CsvLines(text)) :
           Len(CsvRow(text, k)) # Len(CsvRow(text, 1))
    THEN [threw |-> TRUE, records |-> <<>>]
    ELSE [threw |-> FALSE,
          records |-> [k \in 1..(Len(CsvLines(text)) - 1) |->
                          CsvRecord(CsvRow(text, 1), CsvRow(text, k + 1))]]

\* fs.readFileSync(filePath, "utf8"): [threw, text].  A path that is no
\* string and a file that does not exist are errors.
readFileSync(filePath, file) ==
    IF filePath.t # "str" \/ file = Missing
    THEN [threw |-> TRUE, text |-> <<>>]
    ELSE [threw |-> FALSE, text |-> file.s]

\* The catch block of loadCsvData: the failure is logged, [] is returned.
CsvLoadFailed(filePath, now) ==
    [records |-> <<>>,
     appended |-> <<logToFile(ERROR_LOG,
                        <<"CSV Load Failed for ">> \o StringOf(filePath), now)>>,
     threw |-> FALSE]

\* loadCsvData with a catch block that logs and throws the error again.
loadCsvDataRethrow(filePath, file, now) ==
    IF readFileSync(filePath, file).threw
    THEN [CsvLoadFailed(filePath, now) EXCEPT !.threw = TRUE]
    ELSE IF csvParse(readFileSync(filePath, file).text).threw
    THEN [CsvLoadFailed(filePath, now) EXCEPT !.threw = TRUE]
    ELSE [records |-> csvParse(readFileSync(filePath, file).text).records,
          appended |-> <<logToFile(DEBUG_LOG, <<"Loaded records from CSV: ">>, now)>>,
          threw |-> FALSE]

\* loadCsvData(filePath): [records, appended, threw].
loadCsvData(filePath, file, now) ==
    IF readFileSync(filePath, file).threw
    THEN CsvLoadFailed(filePath, now)
    ELSE IF csvParse(readFileSync(filePath, file).text).threw
    THEN CsvLoadFailed(filePath, now)
    ELSE [records |-> csvParse(readFileSync(filePath, file).text).records,
          appended |-> <<logToFile(DEBUG_LOG,
                             <<"Loaded ",
                               ToString(Len(csvParse(readFileSync(filePath, file).text).records)),
                               " records from CSV: ">> \o StringOf(filePath),
                             now)>>,
          threw |-> FALSE]

\* No loadCsvData run.
NoCsv ==
    [filePath |-> Undefined, file |-> Missing, done |-> FALSE,
     records |-> <<>>, threw |-> FALSE]

-----------------------------------------------------------------------------
(* The harness: one scenario step, sent again and again, each time as a    *)
(* fresh copy of the step, with the beforeRequest hook of the loaded       *)
(* processor run on it.                                                    *)

MaxCalls == 2

Times == {1, 2}

Impls == {"processors", "utilities", "custom-signer"}

Envs ==
    [APP_AWS_KEY : {Undefined, Str(<<"KEY">>)},
     APP_AWS_SECRET : {Undefined, Str(<<"SECRET">>)},
     APP_AWS_SESSION : {Undefined, Str(<<"TOKEN">>)}]

Urls ==
    { Undefined,
      Str(<<"/", "p", "?", "q", "=", "{", "{", " ", "a", " ", "}", "}">>),
      Str(<<"http://h", "/", "p", "?", "q", "=", "1", "#", "f">>),
      Str(<<"?", "q", "=", "1">>) }

Payloads == { Undefined, Json(<<"{", "{", "a", "}", "}">>), Circular }

Bodies == { Undefined, Str(<<"r", "a", "w">>) }

HeaderSets == { <<>>, "X-Trace" :> Str(<<"t">>), "X-Trace" :> Null }

Steps ==
    [url : Urls, method : {Str(<<"POST">>)}, json : Payloads, body : Bodies,
     headers : HeaderSets]

Contexts == { [vars |-> <<>>], [vars |-> (<<"a">> :> Num42)] }

NoCall ==
    [hook |-> "none", given |-> <<>>, response |-> <<>>, result |-> <<>>,
     now |-> 0, nextThrows |-> FALSE, opts |-> NoOpts, signerCalls |-> 0, failedAt |-> "none",
     appended |-> <<>>, nextCalls |-> <<>>, threw |-> FALSE]

NoLogs == [f \in LogFiles |-> 0]

ResolverIdle ==
    /\ csv = NoCsv
    /\ rin = Undefined
    /\ rvars = <<>>
    /\ rout = Undefined
    /\ rdone = FALSE

Init ==
    /\ ResolverIdle
    /\ impl \in Impls
    /\ env \in Envs
    /\ flags = [DEBUG_LOG_BODY_ENABLED |-> FALSE, RESPONSE_LOG_BODY_ENABLED |-> FALSE]
    /\ step \in Steps
    /\ context \in Contexts
    /\ requestParams = step
    /\ logs = NoLogs
    /\ calls = 0
    /\ call = NoCall
    /\ prev = NoCall

\* The beforeRequest hook of the loaded processor.
BeforeRequest(rp, ctx, e, now, nextThrows) ==
    CASE impl = "processors" -> signRequest(rp, ctx, e, now, nextThrows)
      [] impl = "utilities" -> signRequestUtils(rp, ctx, e, now, nextThrows)
      [] impl = "custom-signer" -> signRequestCustom(rp, ctx, e, now, nextThrows)

\* The harness runs the beforeRequest hook on the descriptor.
SignRequest ==
    /\ calls < MaxCalls
    /\ \E now \in Times, nextThrows \in BOOLEAN :
        \E r \in {BeforeRequest(requestParams, context, env, now, nextThrows)} :
            /\ requestParams' = r.requestParams
            /\ logs' = AppendAll(logs, r.appended)
            /\ call' = [hook |-> "signRequest", given |-> requestParams,
                        response |-> <<>>, result |-> r.requestParams,
                        now |-> now, nextThrows |-> nextThrows,
                        opts |-> r.opts, signerCalls |-> r.signerCalls,
                        failedAt |-> r.failedAt, appended |-> r.appended,
                        nextCalls |-> r.nextCalls, threw |-> r.threw]
    /\ prev' = call
    /\ calls' = calls + 1
    /\ UNCHANGED <<csv, rin, rvars, rout, rdone, impl, env, flags, step, context>>

\* The scenario step is sent again: the hooks get a fresh copy of it.
Resend ==
    /\ call.hook # "none"
    /\ requestParams # step
    /\ requestParams' = step
    /\ UNCHANGED <<csv, rin, rvars, rout, rdone, impl, env, flags, step, context,
                   logs, calls, call, prev>>

Next == SignRequest \/ Resend

Spec == Init /\ [][Next]_vars

-----------------------------------------------------------------------------
(* The harness after the network call: the afterResponse hook of the       *)
(* loaded processor is run on the descriptor and the response.             *)

StatusCodes == {100, 200, 399, 400, 500}

ResponseBodies ==
    { Undefined, Str(<<"o", "k">>), Buffer(<<"o", "k">>), SomeObject }

Responses ==
    { NoResponse } \cup
    { Response(c, b) : c \in StatusCodes, b \in ResponseBodies }

SentRequests ==
    [url : {Str(<<"/", "p">>)}, method : {Str(<<"POST">>)}, json : {Undefined},
     body : {Undefined, Str(<<"r", "a", "w">>), SomeObject},
     headers : {"Host" :> TARGET_HOST}]

ResponseInit ==
    /\ ResolverIdle
    /\ impl \in {"processors", "utilities"}
    /\ env = [APP_AWS_KEY |-> Undefined, APP_AWS_SECRET |-> Undefined,
              APP_AWS_SESSION |-> Undefined]
    /\ flags \in [DEBUG_LOG_BODY_ENABLED : BOOLEAN, RESPONSE_LOG_BODY_ENABLED : BOOLEAN]
    /\ step \in SentRequests
    /\ context = [vars |-> <<>>]
    /\ requestParams = step
    /\ logs = NoLogs
    /\ calls = 0
    /\ call = NoCall
    /\ prev = NoCall

\* The afterResponse hook of the loaded processor.
AfterResponseHook(rp, response, now, fl) ==
    CASE impl = "processors" -> afterResponse(rp, response, now, fl)
      [] impl = "utilities" -> afterResponseUtils(rp, response, now, fl)

\* The harness runs the afterResponse hook on a response, or on none.
AfterResponse ==
    /\ calls < MaxCalls
    /\ \E now \in Times, response \in Responses :
        \E r \in {AfterResponseHook(requestParams, response, now, flags)} :
            /\ logs' = AppendAll(logs, r.appended)
            /\ call' = [hook |-> "afterResponse", given |-> requestParams,
                        response |-> response, result |-> requestParams,
                        now |-> now, nextThrows |-> FALSE,
                        opts |-> NoOpts, signerCalls |-> 0,
                        failedAt |-> "none", appended |-> r.appended,
                        nextCalls |-> r.nextCalls, threw |-> r.threw]
    /\ prev' = call
    /\ calls' = calls + 1
    /\ UNCHANGED <<csv, rin, rvars, rout, rdone, impl, env, flags, step, context,
                   requestParams>>

ResponseNext == AfterResponse

ResponseSpec == ResponseInit /\ [][ResponseNext]_vars

-----------------------------------------------------------------------------
(* Resolver runs: every template made of at most MaxPieces pieces, every   *)
(* context of ResolverContexts.                                            *)

MaxPieces == 5

Pieces ==
    { <<"{", "{">>, <<"}", "}">>, <<"{">>, <<"}">>, <<" ">>, <<"a">>,
      <<"constructor">> }

RECURSIVE Flatten(_)
Flatten(ps) == IF ps = <<>> THEN <<>> ELSE Head(ps) \o Flatten(Tail(ps))

Templates ==
    { Flatten(ps) : ps \in UNION { [1..n -> Pieces] : n \in 0..MaxPieces } }

NonStrings == { Undefined, Null, Num0, Num42, False, SomeObject }

ResolverContexts ==
    { <<>> } \cup
    { [k \in {<<"a">>} |-> v] : v \in { Num0, Num42, False, Str(<<>>), Null } }

ResolverInit ==
    /\ csv = NoCsv
    /\ rin \in { Str(s) : s \in Templates } \cup NonStrings
    /\ rvars \in ResolverContexts
    /\ rout = Undefined
    /\ rdone = FALSE
    /\ impl = "processors"
    /\ env = [APP_AWS_KEY |-> Undefined, APP_AWS_SECRET |-> Undefined,
              APP_AWS_SESSION |-> Undefined]
    /\ flags = [DEBUG_LOG_BODY_ENABLED |-> FALSE, RESPONSE_LOG_BODY_ENABLED |-> FALSE]
    /\ step = <<>>
    /\ context = [vars |-> rvars]
    /\ requestParams = <<>>
    /\ logs = NoLogs
    /\ calls = 0
    /\ call = NoCall
    /\ prev = NoCall

Resolve ==
    /\ ~rdone
    /\ rout' = resolveTemplate(rin, rvars)
    /\ rdone' = TRUE
    /\ UNCHANGED <<rin, rvars, csv>>
    /\ UNCHANGED hvarsTuple

ResolverNext == Resolve

ResolverSpec == ResolverInit /\ [][ResolverNext]_vars

-----------------------------------------------------------------------------
(* CSV runs: every file of at most MaxChars characters, and no file.       *)

MaxChars == 5

CsvChars == {"a", "b", ",", "\n"}

CsvTexts == UNION { [1..n -> CsvChars] : n \in 0..MaxChars }

CsvFiles == { Missing } \cup { File(text) : text \in CsvTexts }

CsvPaths == { Undefined, Str(<<"users.csv">>) }

CsvInit ==
    /\ csv \in { [NoCsv EXCEPT !.filePath = fp, !.file = f] :
                    fp \in CsvPaths, f \in CsvFiles }
    /\ rin = Undefined
    /\ rvars = <<>>
    /\ rout = Undefined
    /\ rdone = FALSE
    /\ impl = "processors"
    /\ env = [APP_AWS_KEY |-> Undefined, APP_AWS_SECRET |-> Undefined,
              APP_AWS_SESSION |-> Undefined]
    /\ flags = [DEBUG_LOG_BODY_ENABLED |-> FALSE, RESPONSE_LOG_BODY_ENABLED |-> FALSE]
    /\ step = <<>>
    /\ context = [vars |-> <<>>]
    /\ requestParams = <<>>
    /\ logs = NoLogs
    /\ calls = 0
    /\ call = NoCall
    /\ prev = NoCall

\* The harness calls loadCsvData on the path.
LoadCsv ==
    /\ ~csv.done
    /\ \E now \in Times :
        \E r \in {loadCsvData(csv.filePath, csv.file, now)} :
            /\ csv' = [csv EXCEPT !.done = TRUE, !.records = r.records,
                                  !.threw = r.threw]
            /\ logs' = AppendAll(logs, r.appended)
            /\ call' = [NoCall EXCEPT !.hook = "loadCsvData", !.now = now,
                                      !.appended = r.appended, !.threw = r.threw]
    /\ prev' = call
    /\ calls' = calls + 1
    /\ UNCHANGED <<rin, rvars, rout, rdone, impl, env, flags, step, context,
                   requestParams>>

CsvNext == LoadCsv

CsvSpec == CsvInit /\ [][CsvNext]_vars

-----------------------------------------------------------------------------
(* Properties of the beforeRequest hooks *)

Signing == call.hook = "signRequest"

\* The hook ran to its next() with nothing thrown on the way.
Signed == Signing /\ call.failedAt = "none"

\* C1: after a successful signRequest of the processor with template
\* resolution, the body given to the signer is the body left on the
\* descriptor.
C1_SignedBodyIsSentBody ==
    Signed /\ impl = "processors" => call.opts.body = call.result.body

\* The path and query of a parsed URL, as either hook renders them.
PathAndQuery(parsed) == {Str(PathnamePlusSearch(parsed)), parsed.path}

\* C2: whenever the signer is called, its path is the path and query of the
\* resolved URL, and with a json payload its body is the resolved
\* serialization.
C2_SignerGetsResolved ==
    Signing /\ call.signerCalls = 1 =>
        /\ call.opts.path \in
               PathAndQuery(UrlParse(resolveTemplate(call.given.url, context.vars)))
        /\ ~Falsy(call.given.json) =>
               call.opts.body =
                   resolveTemplate(Str(JsonStringify(call.given.json).text),
                                   context.vars)

C4_MissingCredentialsFail ==
    /\ Signing
    /\ impl = "processors"
    /\ env.APP_AWS_KEY = Undefined \/ env.APP_AWS_SECRET = Undefined
    => /\ call.nextCalls = <<"err">>
       /\ "Authorization" \notin DOMAIN call.result.headers

C9_NoLogAppendWhileSigning ==
    Signing => call.appended = <<>>

\* The pathname and the search part of a parsed URL, each empty when the URL
\* has none.
PathAndSearch(parsed) ==
    Str((IF Falsy(parsed.pathname) THEN <<>> ELSE parsed.pathname.s)
            \o (IF Falsy(parsed.search) THEN <<>> ELSE parsed.search.s))

\* C13: after a successful signRequest of the processor with template
\* resolution, the descriptor's url is the path the signer was given, and it
\* is the pathname and search part of the resolved URL.
C13_UrlIsSignedPath ==
    Signed /\ impl = "processors" =>
        /\ call.result.url = call.opts.path
        /\ call.result.url =
               PathAndSearch(UrlParse(resolveTemplate(call.given.url, context.vars)))

\* C14: every signing call calls the continuation exactly once, also when
\* the continuation throws.
C14_NextExactlyOnce ==
    Signing => Len(call.nextCalls) = 1

\* The call has reported an error to the continuation.
ReportedError == \E k \in 1..Len(call.nextCalls) : call.nextCalls[k] = "err"

\* C15: whenever signRequest of the processor with template resolution
\* calls next(err), the descriptor's headers and url are those it was given.
C15_ErrorLeavesRequest ==
    Signing /\ impl = "processors" /\ ReportedError =>
        /\ call.result.headers = call.given.headers
        /\ call.result.url = call.given.url

-----------------------------------------------------------------------------
(* Properties of the afterResponse hooks *)

Logged ==
    /\ call.hook = "afterResponse"
    /\ impl = "processors"
    /\ call.response.present

\* The lines of the last call that went to file, stamped with the call's time.
LinesTo(file) ==
    { k \in 1..Len(call.appended) :
        call.appended[k].file = file /\ call.appended[k].ts = call.now }

-----------------------------------------------------------------------------
(* Properties of resolveTemplate *)

HasNoBrace(s) == \A k \in 1..Len(s) : s[k] # "}"

\* A placeholder of s: "{{" at i, "}}" at j, and between them a non-empty
\* text without "}".
IsPlaceholder(s, i, j) ==
    /\ i + 3 <= j /\ j + 1 <= Len(s)
    /\ s[i] = "{" /\ s[i + 1] = "{"
    /\ s[j] = "}" /\ s[j + 1] = "}"
    /\ HasNoBrace(SubSeq(s, i + 2, j - 1))

\* The text before a placeholder leaves it alone: it does not end in a "{"
\* that would pair with the placeholder's first brace, and holds no "{{"
\* that is still waiting for its first "}".
Closed(p) ==
    /\ p = <<>> \/ p[Len(p)] # "{"
    /\ \A i \in 1..(Len(p) - 1) :
           p[i] = "{" /\ p[i + 1] = "{" => IndexFrom(p, "}", i + 2) # 0

Placeholders(s) ==
    { ij \in (1..Len(s)) \X (1..Len(s)) :
        /\ IsPlaceholder(s, ij[1], ij[2])
        /\ Closed(SubSeq(s, 1, ij[1] - 1)) }

NameOf(s, ij) == Trim(SubSeq(s, ij[1] + 2, ij[2] - 1))

Before(s, ij) == resolveTemplate(Str(SubSeq(s, 1, ij[1] - 1)), rvars).s

After(s, ij) == resolveTemplate(Str(SubSeq(s, ij[2] + 2, Len(s))), rvars).s

\* s holds "{{" and, somewhere after it, "}}".
HasMarker(s) ==
    \E i, j \in 1..Len(s) :
        /\ i + 2 <= j /\ j + 1 <= Len(s)
        /\ s[i] = "{" /\ s[i + 1] = "{" /\ s[j] = "}" /\ s[j + 1] = "}"

\* C5: every placeholder whose trimmed name the variable context does not
\* hold is replaced by the empty string (the text around it resolved on its
\* own).
C5_AbsentBecomesEmpty ==
    rdone /\ rin.t = "str" =>
        \A ij \in Placeholders(rin.s) :
            NameOf(rin.s, ij) \notin DOMAIN rvars =>
                rout.s = Before(rin.s, ij) \o After(rin.s, ij)

\* C6: every placeholder whose trimmed name the variable context holds is
\* replaced by String(value), whatever the value (0, false and "" too) and
\* whatever whitespace surrounds the name.
C6_PresentSubstituted ==
    rdone /\ rin.t = "str" =>
        \A ij \in Placeholders(rin.s) :
            NameOf(rin.s, ij) \in DOMAIN rvars =>
                rout.s = Before(rin.s, ij)
                             \o StringOf(rvars[NameOf(rin.s, ij)])
                             \o After(rin.s, ij)

\* C6 happens: "{{ a }}" with whitespace on both sides of the name, a falsy
\* value stored under a, has been resolved.
C6_Witness ==
    /\ rdone
    /\ rin = Str(<<"{", "{", " ", "a", " ", "}", "}">>)
    /\ rvars = [k \in {<<"a">>} |-> Num0]
    /\ rout = Str(<<"0">>)

\* C7: a string with no {{...}} marker, and every non-string, is returned
\* unchanged.
C7_IdentityWithoutMarker ==
    rdone /\ (rin.t # "str" \/ ~HasMarker(rin.s)) => rout = rin

\* C7 happens: a string with braces but no marker has been resolved.
C7_Witness ==
    /\ rdone
    /\ rin = Str(<<"}", "}", "a", "{", "{">>)
    /\ rout = rin

-----------------------------------------------------------------------------
(* Properties of loadCsvData *)

\* The number of "," in a line.
Commas(line) == Cardinality({ k \in 1..Len(line) : line[k] = "," })

\* The file can be read and every line that holds something has as many
\* fields as the first such line.
Loadable ==
    /\ csv.filePath.t = "str"
    /\ csv.file # Missing
    /\ \A k \in 1..Len(CsvLines(csv.file.s)) :
           Commas(CsvLines(csv.file.s)[k]) = Commas(CsvLines(csv.file.s)[1])

\* The j-th field of a line: what lies between its (j-1)-th and j-th ",".
FieldOf(line, j) ==
    SelectSeq([k \in 1..Len(line) |->
                  IF line[k] # "," /\ Commas(SubSeq(line, 1, k)) = j - 1
                  THEN line[k] ELSE ","],
              LAMBDA c : c # ",")

\* The k-th record holds, under every name of the header, the field the
\* (k+1)-th line has in the last column of that name.
InFileOrder(text, records) ==
    /\ Len(records) = (IF CsvLines(text) = <<>> THEN 0 ELSE Len(CsvLines(text)) - 1)
    /\ \A k \in 1..Len(records) :
         \A j \in 1..(Commas(CsvLines(text)[1]) + 1) :
            (\A i \in (j + 1)..(Commas(CsvLines(text)[1]) + 1) :
                 FieldOf(CsvLines(text)[1], i) # FieldOf(CsvLines(text)[1], j))
            => /\ FieldOf(CsvLines(text)[1], j) \in DOMAIN records[k]
               /\ records[k][FieldOf(CsvLines(text)[1], j)]
                      = FieldOf(CsvLines(text)[k + 1], j)

====
